---- MODULE Spec2Model ----
(***************************************************************************)
(* Model of src/src/model.rs: the image_features / image_description data  *)
(* access layer over SQLite (rusqlite) with bincode-encoded blob columns.  *)
(*                                                                         *)
(* Every operation opens its own connection to the named database file and *)
(* touches only that file, so the model follows the store of one file      *)
(* through any sequence of calls.  The file is TEST_DB, the one            *)
(* clear_test_db reaches; the calls on any other file are the behaviours   *)
(* of this model in which clear_test_db does not fire, since there it      *)
(* changes a file the calls do not read.                                   *)
(* A table is the sequence of its rows in rowid order, which is the order  *)
(* a full table scan (SELECT ... WHERE camera_id = ?) yields them; an      *)
(* INSERT takes the next rowid and therefore appends.                      *)
(* Connection::open is taken to succeed (the file can be opened).          *)
(*                                                                         *)
(* Value encodings: Option<T> and a nullable column are sequences of       *)
(* length 0 (None / NULL) or 1; an f32 is its IEEE-754 bit pattern read as *)
(* a 32-bit two's complement integer; an f64 is a token ("0.5", "NaN").    *)
(***************************************************************************)
EXTENDS Integers, Sequences, FiniteSets, TLC

VARIABLES feat, desc, pc, call, res

vars == <<feat, desc, pc, call, res>>

\* ------------------------------------------------------------------ bounds

\* Most rows the image_features table holds in the model.
MaxRows == 2

\* Most rows the image_description table holds in the model.
MaxDescRows == 1

\* ------------------------------------------------------------ data model

None == <<>>

Some(x) == <<x>>

\* struct KeyPointData { x, y, size, angle }: four f32.
KeyPointData(x, y, size, angle) == [x |-> x, y |-> y, size |-> size, angle |-> angle]

\* IEEE-754 single precision bit patterns of the values main() uses.
F32_0 == 0
F32_1 == 1065353216
F32_2 == 1073741824
F32_45 == 1110704128

\* struct ImageFeature.
ImageFeature(id, keypoints, descriptors, motion_mean, motion_std, created_at_utc, img_filename, camera_id) ==
    [id |-> id, keypoints |-> keypoints, descriptors |-> descriptors,
     motion_mean |-> motion_mean, motion_std |-> motion_std,
     created_at_utc |-> created_at_utc, img_filename |-> img_filename,
     camera_id |-> camera_id]

\* struct ImageDescription.
ImageDescription(image_name, datetime, camera_id, anomaly) ==
    [image_name |-> image_name, datetime |-> datetime, camera_id |-> camera_id,
     anomaly |-> anomaly]

\* ------------------------------------------------------- inputs (callers)

Ids == {"1", "2"}

CameraIds == {"camera_1", "camera_2"}

\* The keypoints and descriptors of main()'s record, an empty pair, and a
\* record whose motion statistics are not a number.
MainKeypoints == <<KeyPointData(F32_0, F32_0, F32_1, F32_0), KeyPointData(F32_1, F32_1, F32_2, F32_45)>>

MainDescriptors == <<0, 1, 2, 3, 4, 5, 6, 7, 8, 9>>

Payloads ==
    { [keypoints |-> MainKeypoints, descriptors |-> MainDescriptors,
       motion_mean |-> "0.5", motion_std |-> "0.1", img_filename |-> Some("image_1.jpg")],
      [keypoints |-> <<>>, descriptors |-> <<>>,
       motion_mean |-> "0.5", motion_std |-> "0.1", img_filename |-> None],
      [keypoints |-> <<KeyPointData(F32_1, F32_0, F32_2, F32_45)>>, descriptors |-> <<255>>,
       motion_mean |-> "NaN", motion_std |-> "NaN", img_filename |-> None] }

Features ==
    { ImageFeature(i, p.keypoints, p.descriptors, p.motion_mean, p.motion_std,
                   "2024-06-12T12:34:56Z", p.img_filename, c) :
        i \in Ids, p \in Payloads, c \in CameraIds }

Descriptions ==
    { ImageDescription("test_image.jpg", "2024-06-12T12:34:56Z", "camera_1", None),
      ImageDescription("image_2.jpg", "2024-06-13T00:00:00Z", "camera_2", Some("smoke")) }

\* ---------------------------------------------------------- binary codec

\* Little-endian bytes of a u64 (bincode's fixed-width length prefix).
U64LE(n) == [i \in 1..8 |-> IF i <= 3 THEN (n \div (256 ^ (i - 1))) % 256
                            ELSE IF i = 4 THEN (n \div 16777216) % 256 ELSE 0]

\* Little-endian bytes of an f32 bit pattern.
F32LE(bits) == [i \in 1..4 |-> (bits \div (256 ^ (i - 1))) % 256]

\* A length no blob of the model can hold (prefix beyond 2^31 - 1).
HugeLen == 2147483647

\* The u64 read back from 8 little-endian bytes.
U64FromLE(b) ==
    IF b[5] # 0 \/ b[6] # 0 \/ b[7] # 0 \/ b[8] # 0 \/ b[4] >= 128 THEN HugeLen
    ELSE b[1] + 256 * b[2] + 65536 * b[3] + 16777216 * b[4]

\* The f32 bit pattern read back from 4 little-endian bytes.
F32FromLE(b) ==
    b[1] + 256 * b[2] + 65536 * b[3] + 16777216 * (IF b[4] >= 128 THEN b[4] - 256 ELSE b[4])

KeyPointBytes(k) == F32LE(k.x) \o F32LE(k.y) \o F32LE(k.size) \o F32LE(k.angle)

RECURSIVE ConcatKeyPoints(_)
ConcatKeyPoints(kps) ==
    IF kps = <<>> THEN <<>> ELSE KeyPointBytes(Head(kps)) \o ConcatKeyPoints(Tail(kps))

\* bincode::serialize(&Vec<KeyPointData>): u64 length, then 16 bytes each.
serialize_keypoints(kps) == U64LE(Len(kps)) \o ConcatKeyPoints(kps)

\* bincode::serialize(&Vec<u8>): u64 length, then the bytes.
serialize_bytes(bytes) == U64LE(Len(bytes)) \o bytes

DecodeErr == [ok |-> FALSE, val |-> <<>>]

\* bincode::deserialize::<Vec<KeyPointData>>: fails when the input ends
\* before the prefix or before the elements it announces; bytes after the
\* last element are ignored.
deserialize_keypoints(blob) ==
    IF Len(blob) < 8 THEN DecodeErr
    ELSE LET n == U64FromLE(SubSeq(blob, 1, 8)) IN
         IF n > (Len(blob) - 8) \div 16 THEN DecodeErr
         ELSE [ok |-> TRUE,
               val |-> [i \in 1..n |->
                          LET o == 8 + 16 * (i - 1) IN
                          KeyPointData(F32FromLE(SubSeq(blob, o + 1, o + 4)),
                                       F32FromLE(SubSeq(blob, o + 5, o + 8)),
                                       F32FromLE(SubSeq(blob, o + 9, o + 12)),
                                       F32FromLE(SubSeq(blob, o + 13, o + 16)))]]

\* bincode::deserialize::<Vec<u8>>.
deserialize_bytes(blob) ==
    IF Len(blob) < 8 THEN DecodeErr
    ELSE LET n == U64FromLE(SubSeq(blob, 1, 8)) IN
         IF n > Len(blob) - 8 THEN DecodeErr
         ELSE [ok |-> TRUE, val |-> SubSeq(blob, 9, 8 + n)]

\* ------------------------------------------------------------ the store

\* Binding an f64 parameter: SQLite stores a NaN as NULL.
bind_f64(v) == IF v = "NaN" THEN None ELSE Some(v)

\* The row INSERT INTO image_features writes for a record.
FeatureRow(f) ==
    [id |-> f.id,
     keypoints |-> Some(serialize_keypoints(f.keypoints)),
     descriptors |-> Some(serialize_bytes(f.descriptors)),
     motion_mean |-> bind_f64(f.motion_mean),
     motion_std |-> bind_f64(f.motion_std),
     created_at_utc |-> f.created_at_utc,
     img_filename |-> f.img_filename,
     camera_id |-> f.camera_id]

\* The columns of CREATE TABLE image_features.
FeatureColumns ==
    <<"id", "keypoints", "descriptors", "motion_mean", "motion_std",
      "created_at_utc", "img_filename", "camera_id">>

\* The columns of CREATE TABLE image_description.
DescriptionColumns == <<"image_name", "datetime", "camera_id", "anomaly">>

NoTable == [exists |-> FALSE, columns |-> <<>>, rows |-> <<>>]

Table(columns, rows) == [exists |-> TRUE, columns |-> columns, rows |-> rows]

\* A row of image_features that another writer of the database file left
\* behind, under an id no caller of the model uses.
ForeignRow ==
    [id |-> "0", keypoints |-> Some(U64LE(0)), descriptors |-> Some(U64LE(0)),
     motion_mean |-> Some("0.5"), motion_std |-> Some("0.1"),
     created_at_utc |-> "2024-06-11T00:00:00Z", img_filename |-> None,
     camera_id |-> "camera_1"]

\* The same with a keypoints blob announcing one keypoint and holding none,
\* and with a descriptors blob shorter than its length prefix.
ForeignRows ==
    { [ForeignRow EXCEPT !.keypoints = Some(U64LE(1))],
      [ForeignRow EXCEPT !.descriptors = Some(<<3, 0, 0>>)] }

\* WHERE camera_id = ?
MatchingRows(rows, camera_id) == SelectSeq(rows, LAMBDA r : r.camera_id = camera_id)

\* The rows DELETE ... WHERE camera_id = ? leaves.
DeleteRows(rows, camera_id) == SelectSeq(rows, LAMBDA r : r.camera_id # camera_id)

\* PRIMARY KEY conflict on id.
HasId(rows, id) == \E i \in 1..Len(rows) : rows[i].id = id

\* PRIMARY KEY conflict on image_name.
HasImageName(rows, name) == \E i \in 1..Len(rows) : rows[i].image_name = name

\* What a call returns: Result<()> or Result<Option<ImageFeature>>.
Result(op, status, out) == [op |-> op, status |-> status, out |-> out]

\* The frame of the last call: its arguments (those it has), and the table
\* it addresses as it was when the call began.  Kept until the next call.
Frame(camera_id, image_feature, image_description, before) ==
    <<[camera_id |-> camera_id, image_feature |-> image_feature,
       image_description |-> image_description, before |-> before]>>

\* ------------------------------------------------- repository, as functions

\* DROP + CREATE instead of CREATE TABLE IF NOT EXISTS.
CreateFeatureTableAnew(t) == Table(FeatureColumns, <<>>)

\* CREATE TABLE IF NOT EXISTS image_features.
CreateFeatureTable(t) == IF t.exists THEN t ELSE Table(FeatureColumns, <<>>)

\* CREATE TABLE IF NOT EXISTS image_description.
CreateDescriptionTable(t) == IF t.exists THEN t ELSE Table(DescriptionColumns, <<>>)

\* CREATE TABLE IF NOT EXISTS run before the INSERT.
InsertFeatureRowCreating(t, f) ==
    IF ~t.exists THEN [table |-> Table(FeatureColumns, <<FeatureRow(f)>>), status |-> "Ok"]
    ELSE IF HasId(t.rows, f.id) THEN [table |-> t, status |-> "UniqueViolation"]
    ELSE [table |-> Table(t.columns, Append(t.rows, FeatureRow(f))), status |-> "Ok"]

\* INSERT OR REPLACE instead of INSERT.
InsertOrReplaceFeatureRow(t, f) ==
    IF ~t.exists THEN [table |-> t, status |-> "NoSuchTable"]
    ELSE [table |-> Table(t.columns,
                          Append(SelectSeq(t.rows, LAMBDA r : r.id # f.id), FeatureRow(f))),
          status |-> "Ok"]

\* INSERT INTO image_features ...: the table afterwards and the status.
InsertFeatureRow(t, f) ==
    IF ~t.exists THEN [table |-> t, status |-> "NoSuchTable"]
    ELSE IF HasId(t.rows, f.id) THEN [table |-> t, status |-> "UniqueViolation"]
    ELSE [table |-> Table(t.columns, Append(t.rows, FeatureRow(f))), status |-> "Ok"]

\* INSERT INTO image_description ...: the table afterwards and the status.
InsertDescriptionRow(t, d) ==
    IF ~t.exists THEN [table |-> t, status |-> "NoSuchTable"]
    ELSE IF HasImageName(t.rows, d.image_name) THEN [table |-> t, status |-> "UniqueViolation"]
    ELSE [table |-> Table(t.columns, Append(t.rows, d)), status |-> "Ok"]

\* DELETE ... LIMIT 1 instead of DELETE: only the first matching row goes.
DeleteFirstFeatureRow(t, camera_id) ==
    IF ~t.exists THEN [table |-> t, status |-> "NoSuchTable"]
    ELSE LET hit == {i \in 1..Len(t.rows) : t.rows[i].camera_id = camera_id} IN
         IF hit = {} THEN [table |-> t, status |-> "Ok"]
         ELSE LET k == CHOOSE i \in hit : \A j \in hit : i <= j IN
              [table |-> Table(t.columns, SubSeq(t.rows, 1, k - 1) \o SubSeq(t.rows, k + 1, Len(t.rows))),
               status |-> "Ok"]

\* DELETE FROM image_features WHERE camera_id = ?: the table afterwards and
\* the status.
DeleteFeatureRows(t, camera_id) ==
    IF ~t.exists THEN [table |-> t, status |-> "NoSuchTable"]
    ELSE [table |-> Table(t.columns, DeleteRows(t.rows, camera_id)), status |-> "Ok"]

\* Decode failures replaced by empty vectors (unwrap_or_default) instead of
\* returned.
RowToFeatureLenient(row) ==
    LET kps == IF row.keypoints = None THEN DecodeErr ELSE deserialize_keypoints(row.keypoints[1])
        ds == IF row.descriptors = None THEN DecodeErr ELSE deserialize_bytes(row.descriptors[1])
    IN IF row.motion_mean = None \/ row.motion_std = None
       THEN Result("get_image_feature", "InvalidColumnType", None)
       ELSE Result("get_image_feature", "Ok",
                   Some(ImageFeature(row.id, kps.val, ds.val, row.motion_mean[1],
                                     row.motion_std[1], row.created_at_utc,
                                     row.img_filename, row.camera_id)))

\* The body of `if let Some(row)`: the two blobs are read and decoded first,
\* then the other columns in order; the first failure is returned.
RowToFeature(row) ==
    IF row.keypoints = None THEN Result("get_image_feature", "InvalidColumnType", None)
    ELSE LET kps == deserialize_keypoints(row.keypoints[1]) IN
    IF ~kps.ok THEN Result("get_image_feature", "DecodeError", None)
    ELSE IF row.descriptors = None THEN Result("get_image_feature", "InvalidColumnType", None)
    ELSE LET ds == deserialize_bytes(row.descriptors[1]) IN
    IF ~ds.ok THEN Result("get_image_feature", "DecodeError", None)
    ELSE IF row.motion_mean = None \/ row.motion_std = None
         THEN Result("get_image_feature", "InvalidColumnType", None)
    ELSE Result("get_image_feature", "Ok",
                Some(ImageFeature(row.id, kps.val, ds.val, row.motion_mean[1],
                                  row.motion_std[1], row.created_at_utc,
                                  row.img_filename, row.camera_id)))

\* The last matching row instead of the first.
GetLastFeature(t, camera_id) ==
    IF ~t.exists THEN Result("get_image_feature", "NoSuchTable", None)
    ELSE LET m == MatchingRows(t.rows, camera_id) IN
         IF m = <<>> THEN Result("get_image_feature", "Ok", None)
         ELSE RowToFeature(m[Len(m)])

\* SELECT * FROM image_features WHERE camera_id = ?, then rows.next().
GetFeature(t, camera_id) ==
    IF ~t.exists THEN Result("get_image_feature", "NoSuchTable", None)
    ELSE LET m == MatchingRows(t.rows, camera_id) IN
         IF m = <<>> THEN Result("get_image_feature", "Ok", None)
         ELSE RowToFeature(m[1])

\* The model's bound on image_features: an insert that would add a row is
\* taken only while the table holds fewer than MaxRows.
HasRoom(t, id) == Len(t.rows) < MaxRows \/ HasId(t.rows, id)

\* ------------------------------------------------------------- Init

\* The database file as the first call finds it: either table may or may
\* not have been created, and image_features may hold a foreign row.
Init ==
    /\ feat \in {NoTable, Table(FeatureColumns, <<>>)}
                  \cup {Table(FeatureColumns, <<r>>) : r \in ForeignRows}
    /\ desc \in {NoTable, Table(DescriptionColumns, <<>>)}
    /\ pc = "idle"
    /\ call = <<>>
    /\ res = Result("none", "Ok", None)

\* ------------------------------------------------------ schema manager

setup_database ==
    /\ pc = "idle"
    /\ feat' = CreateFeatureTable(feat)
    /\ res' = Result("setup_database", "Ok", None)
    /\ call' = Frame(None, None, None, feat)
    /\ UNCHANGED <<desc, pc>>

image_description_table ==
    /\ pc = "idle"
    /\ desc' = CreateDescriptionTable(desc)
    /\ res' = Result("image_description_table", "Ok", None)
    /\ call' = Frame(None, None, None, desc)
    /\ UNCHANGED <<feat, pc>>

\* DROP TABLE IF EXISTS image_features, on TEST_DB.
clear_test_db ==
    /\ pc = "idle"
    /\ feat' = NoTable
    /\ res' = Result("clear_test_db", "Ok", None)
    /\ call' = Frame(None, None, None, feat)
    /\ UNCHANGED <<desc, pc>>

\* ---------------------------------------------------- record repository

insert_image_description(d) ==
    /\ pc = "idle"
    /\ Len(desc.rows) < MaxDescRows \/ HasImageName(desc.rows, d.image_name)
    /\ LET r == InsertDescriptionRow(desc, d) IN
       /\ desc' = r.table
       /\ res' = Result("insert_image_description", r.status, None)
    /\ call' = Frame(None, None, Some(d), desc)
    /\ UNCHANGED <<feat, pc>>

insert_image_feature(f) ==
    /\ pc = "idle"
    /\ HasRoom(feat, f.id)
    /\ LET r == InsertFeatureRow(feat, f) IN
       /\ feat' = r.table
       /\ res' = Result("insert_image_feature", r.status, None)
    /\ call' = Frame(None, Some(f), None, feat)
    /\ UNCHANGED <<desc, pc>>

\* Zero rows affected taken for an error.
delete_image_feature_strict(camera_id) ==
    /\ pc = "idle"
    /\ LET r == DeleteFeatureRows(feat, camera_id) IN
       /\ feat' = r.table
       /\ res' = Result("delete_image_feature",
                        IF r.status = "Ok" /\ r.table = feat THEN "NotFound" ELSE r.status,
                        None)
    /\ call' = Frame(Some(camera_id), None, None, feat)
    /\ UNCHANGED <<desc, pc>>

delete_image_feature(camera_id) ==
    /\ pc = "idle"
    /\ LET r == DeleteFeatureRows(feat, camera_id) IN
       /\ feat' = r.table
       /\ res' = Result("delete_image_feature", r.status, None)
    /\ call' = Frame(Some(camera_id), None, None, feat)
    /\ UNCHANGED <<desc, pc>>

\* The two statements in the other order: the insert runs first.
reset_image_feature_insert_first(camera_id, f) ==
    /\ pc = "idle"
    /\ HasRoom(feat, f.id)
    /\ LET r == InsertFeatureRow(feat, f) IN
       /\ feat' = r.table
       /\ call' = Frame(Some(camera_id), Some(f), None, feat)
       /\ IF r.status = "Ok"
          THEN /\ pc' = "reset_insert"
               /\ res' = Result("reset_image_feature", "Pending", None)
          ELSE /\ pc' = "idle"
               /\ res' = Result("reset_image_feature", r.status, None)
    /\ UNCHANGED <<desc>>

\* reset_image_feature, first statement: delete_image_feature(camera_id)?.
\* An error returns at once; otherwise the insert is still to run.
reset_image_feature_delete(camera_id, f) ==
    /\ pc = "idle"
    /\ LET r == DeleteFeatureRows(feat, camera_id) IN
       /\ HasRoom(r.table, f.id)
       /\ feat' = r.table
       /\ call' = Frame(Some(camera_id), Some(f), None, feat)
       /\ IF r.status = "Ok"
          THEN /\ pc' = "reset_insert"
               /\ res' = Result("reset_image_feature", "Pending", None)
          ELSE /\ pc' = "idle"
               /\ res' = Result("reset_image_feature", r.status, None)
    /\ UNCHANGED <<desc>>

\* The insert inside a transaction with the delete: a failure rolls the
\* delete back.
reset_image_feature_insert_or_rollback ==
    /\ pc = "reset_insert"
    /\ LET r == InsertFeatureRow(feat, call[1].image_feature[1]) IN
       /\ feat' = IF r.status = "Ok" THEN r.table ELSE call[1].before
       /\ res' = Result("reset_image_feature", r.status, None)
    /\ pc' = "idle"
    /\ UNCHANGED <<desc, call>>

\* reset_image_feature, second statement: insert_image_feature(image_feature)?.
reset_image_feature_insert ==
    /\ pc = "reset_insert"
    /\ LET r == InsertFeatureRow(feat, call[1].image_feature[1]) IN
       /\ feat' = r.table
       /\ res' = Result("reset_image_feature", r.status, None)
    /\ pc' = "idle"
    /\ UNCHANGED <<desc, call>>

\* The process stops between the two statements of reset_image_feature;
\* nothing rolls the delete back, and later calls come from a new process.
process_stop ==
    /\ pc = "reset_insert"
    /\ pc' = "idle"
    /\ res' = Result("reset_image_feature", "Aborted", None)
    /\ UNCHANGED <<feat, desc, call>>

get_image_feature(camera_id) ==
    /\ pc = "idle"
    /\ res' = GetFeature(feat, camera_id)
    /\ call' = Frame(Some(camera_id), None, None, feat)
    /\ UNCHANGED <<feat, desc, pc>>

Next ==
    \/ setup_database
    \/ image_description_table
    \/ clear_test_db
    \/ \E d \in Descriptions : insert_image_description(d)
    \/ \E f \in Features : insert_image_feature(f)
    \/ \E c \in CameraIds : delete_image_feature(c)
    \/ \E c \in CameraIds, f \in Features : reset_image_feature_delete(c, f)
    \/ reset_image_feature_insert
    \/ process_stop
    \/ \E c \in CameraIds : get_image_feature(c)

Spec == Init /\ [][Next]_vars

\* ------------------------------------------------------------- claims

\* The last call's arguments, once a call has been made.
ArgCamera == call[1].camera_id[1]

ArgFeature == call[1].image_feature[1]

Before == call[1].before

\* reset_image_feature has returned to its caller.
ResetReturned ==
    /\ call # <<>>
    /\ res.op = "reset_image_feature"
    /\ res.status \notin {"Pending", "Aborted"}

\* C1, as stated: after replace(c, r) with r.camera_id = c on a camera that
\* had rows, camera c has exactly one row, the one written for r, and the
\* table is the earlier one without the rows of c, plus that row.
C1_ReplaceLeavesOnlyNewRow ==
    (/\ ResetReturned
     /\ ArgFeature.camera_id = ArgCamera
     /\ MatchingRows(Before.rows, ArgCamera) # <<>>)
    => /\ MatchingRows(feat.rows, ArgCamera) = <<FeatureRow(ArgFeature)>>
       /\ feat.rows = Append(DeleteRows(Before.rows, ArgCamera), FeatureRow(ArgFeature))

\* C1, amended: the same, when r.id is not the id of a row stored under
\* another camera; the call then returns Ok.
C1_ReplaceLeavesOnlyNewRowUnlessIdTaken ==
    (/\ ResetReturned
     /\ ArgFeature.camera_id = ArgCamera
     /\ MatchingRows(Before.rows, ArgCamera) # <<>>
     /\ ~HasId(DeleteRows(Before.rows, ArgCamera), ArgFeature.id))
    => /\ res.status = "Ok"
       /\ MatchingRows(feat.rows, ArgCamera) = <<FeatureRow(ArgFeature)>>
       /\ feat.rows = Append(DeleteRows(Before.rows, ArgCamera), FeatureRow(ArgFeature))

\* C1, witness: a replace returned Ok on a camera that had rows, of which a
\* row with another id is gone, while a row of another camera stayed.
C1_Witness ==
    /\ ResetReturned
    /\ res.status = "Ok"
    /\ ArgFeature.camera_id = ArgCamera
    /\ \E i \in 1..Len(Before.rows) :
         Before.rows[i].camera_id = ArgCamera /\ Before.rows[i].id # ArgFeature.id
    /\ DeleteRows(Before.rows, ArgCamera) # <<>>
    /\ MatchingRows(feat.rows, ArgCamera) = <<FeatureRow(ArgFeature)>>

\* C2: an insert whose id is already stored returns UniqueViolation and
\* leaves the table as it was: the stored row keeps every column value and
\* get returns for each camera what it returned before.
C2_DuplicateIdRejected ==
    (/\ call # <<>>
     /\ res.op = "insert_image_feature"
     /\ HasId(Before.rows, ArgFeature.id))
    => /\ res.status = "UniqueViolation"
       /\ feat = Before
       /\ \A i \in 1..Len(Before.rows) :
            Before.rows[i].id = ArgFeature.id =>
              /\ feat.rows[i] = Before.rows[i]
              /\ GetFeature(feat, Before.rows[i].camera_id)
                   = GetFeature(Before, Before.rows[i].camera_id)

\* C2, witness: an insert was refused for a record that differs from the
\* stored row of the same id, and get still returns the stored record.
C2_Witness ==
    /\ call # <<>>
    /\ res = Result("insert_image_feature", "UniqueViolation", None)
    /\ \E i \in 1..Len(feat.rows) :
         /\ feat.rows[i].id = ArgFeature.id
         /\ feat.rows[i] # FeatureRow(ArgFeature)
         /\ GetFeature(feat, feat.rows[i].camera_id).status = "Ok"
         /\ GetFeature(feat, feat.rows[i].camera_id).out # None
         /\ FeatureRow(GetFeature(feat, feat.rows[i].camera_id).out[1]) = feat.rows[i]

\* C3: between the two statements of replace(c, r) the table is the earlier
\* one without the rows of c: no row of c is left and nothing was added (so
\* r, if its camera is c, is not stored); and when the process stops there,
\* that is the state it leaves.
C3_ReplaceWindow ==
    (/\ call # <<>>
     /\ res.op = "reset_image_feature"
     /\ (pc = "reset_insert" \/ res.status = "Aborted"))
    => /\ MatchingRows(feat.rows, ArgCamera) = <<>>
       /\ feat.rows = DeleteRows(Before.rows, ArgCamera)
       /\ (ArgFeature.camera_id = ArgCamera =>
             \A i \in 1..Len(feat.rows) : feat.rows[i] # FeatureRow(ArgFeature))

\* C3, witness: the process stopped inside a replace on a camera that had
\* rows; they are gone and the new record is not stored.
C3_Witness ==
    /\ call # <<>>
    /\ res = Result("reset_image_feature", "Aborted", None)
    /\ pc = "idle"
    /\ MatchingRows(Before.rows, ArgCamera) # <<>>
    /\ MatchingRows(feat.rows, ArgCamera) = <<>>
    /\ ~HasId(feat.rows, ArgFeature.id)

\* C4: on an existing table delete(c) returns Ok, however many rows match;
\* afterwards no row has camera c, the rows of other cameras are as before,
\* and get(c) returns empty.
C4_DeleteRemovesAllOfCamera ==
    (/\ call # <<>>
     /\ res.op = "delete_image_feature"
     /\ Before.exists)
    => /\ res.status = "Ok"
       /\ \A i \in 1..Len(feat.rows) : feat.rows[i].camera_id # ArgCamera
       /\ feat = Table(Before.columns, DeleteRows(Before.rows, ArgCamera))
       /\ GetFeature(feat, ArgCamera) = Result("get_image_feature", "Ok", None)

\* C4, witness: a delete removed two rows of one camera.
C4_Witness ==
    /\ call # <<>>
    /\ res = Result("delete_image_feature", "Ok", None)
    /\ Len(MatchingRows(Before.rows, ArgCamera)) >= 2
    /\ MatchingRows(feat.rows, ArgCamera) = <<>>

\* C5: after a record r is inserted for a camera that had no row,
\* get(r.camera_id) returns Ok with a record equal to r in every field.
C5_InsertThenGetRoundTrip ==
    (/\ call # <<>>
     /\ res = Result("insert_image_feature", "Ok", None)
     /\ MatchingRows(Before.rows, ArgFeature.camera_id) = <<>>)
    => GetFeature(feat, ArgFeature.camera_id)
         = Result("get_image_feature", "Ok", Some(ArgFeature))

\* get_image_feature has returned on an existing table.
GetReturned ==
    /\ call # <<>>
    /\ res.op = "get_image_feature"
    /\ Before.exists

\* The columns of a row that get converts can all be converted: both blobs
\* are present and decode, and the motion columns are not NULL.
Converts(row) ==
    /\ row.keypoints # None /\ deserialize_keypoints(row.keypoints[1]).ok
    /\ row.descriptors # None /\ deserialize_bytes(row.descriptors[1]).ok
    /\ row.motion_mean # None /\ row.motion_std # None

\* C5, for the records whose motion statistics are numbers: the same, both
\* blobs decoding to the sequences that were encoded, the empty ones too.
C5_InsertThenGetRoundTripOfNumbers ==
    (/\ call # <<>>
     /\ res = Result("insert_image_feature", "Ok", None)
     /\ MatchingRows(Before.rows, ArgFeature.camera_id) = <<>>
     /\ ArgFeature.motion_mean # "NaN" /\ ArgFeature.motion_std # "NaN")
    => GetFeature(feat, ArgFeature.camera_id)
         = Result("get_image_feature", "Ok", Some(ArgFeature))

\* C6, as stated: on an existing table get(c) returns Ok(None) exactly when
\* no row has camera c; when rows match it returns Ok with the first of
\* them; the table is unchanged.
C6_GetReturnsFirstMatch ==
    GetReturned =>
      LET m == MatchingRows(Before.rows, ArgCamera) IN
      /\ (res.status = "Ok" /\ res.out = None) <=> (m = <<>>)
      /\ m # <<>> => (res.status = "Ok" /\ res.out # None /\ FeatureRow(res.out[1]) = m[1])
      /\ feat = Before

\* C6, amended: on an existing table get(c) returns Ok(None) exactly when
\* no row has camera c; when rows match it reads the first of them only: it
\* returns Ok with that row when its columns convert, and an error and no
\* record when they do not; the table is unchanged.
C6_GetReturnsFirstMatchOrItsError ==
    GetReturned =>
      LET m == MatchingRows(Before.rows, ArgCamera) IN
      /\ (res.status = "Ok" /\ res.out = None) <=> (m = <<>>)
      /\ (m # <<>> /\ Converts(m[1])) =>
            (res.status = "Ok" /\ res.out # None /\ FeatureRow(res.out[1]) = m[1])
      /\ (m # <<>> /\ ~Converts(m[1])) =>
            (res.status \in {"DecodeError", "InvalidColumnType"} /\ res.out = None)
      /\ feat = Before

\* C6, witness: get returned the first of two rows of the camera.
C6_Witness ==
    /\ GetReturned
    /\ Len(MatchingRows(feat.rows, ArgCamera)) >= 2
    /\ res.status = "Ok"
    /\ res.out # None
    /\ FeatureRow(res.out[1]) = MatchingRows(feat.rows, ArgCamera)[1]

\* C7: setup_database on an existing image_features table, and
\* image_description_table on an existing image_description table, return Ok
\* and leave the table, its columns and its rows, as it was.
C7_SchemaCreationIdempotent ==
    /\ (call # <<>> /\ res.op = "setup_database" /\ Before.exists)
         => (res.status = "Ok" /\ feat = Before)
    /\ (call # <<>> /\ res.op = "image_description_table" /\ Before.exists)
         => (res.status = "Ok" /\ desc = Before)

\* C7, witness: setup_database returned on a table that holds rows.
C7_Witness ==
    /\ call # <<>>
    /\ res = Result("setup_database", "Ok", None)
    /\ Before.exists
    /\ Len(Before.rows) >= 2
    /\ feat = Before

\* C8: insert, delete, replace and get on a file without image_features,
\* and insert_description on a file without image_description, return an
\* error and leave the file without the table; replace returns at once.
C8_NoAutoCreate ==
    /\ (/\ call # <<>>
        /\ res.op \in {"insert_image_feature", "delete_image_feature",
                       "reset_image_feature", "get_image_feature"}
        /\ ~Before.exists)
         => (res.status = "NoSuchTable" /\ res.out = None /\ feat = NoTable /\ pc = "idle")
    /\ (call # <<>> /\ res.op = "insert_image_description" /\ ~Before.exists)
         => (res.status = "NoSuchTable" /\ desc = NoTable)

\* C8, witness: an insert was refused on a file without image_features.
C8_Witness ==
    /\ call # <<>>
    /\ res = Result("insert_image_feature", "NoSuchTable", None)
    /\ ~Before.exists
    /\ ~feat.exists

\* The blob is present and cannot be decoded.
Undecodable(row) ==
    \/ row.keypoints # None /\ ~deserialize_keypoints(row.keypoints[1]).ok
    \/ /\ row.keypoints # None /\ deserialize_keypoints(row.keypoints[1]).ok
       /\ row.descriptors # None /\ ~deserialize_bytes(row.descriptors[1]).ok

\* C9: when the first row of the camera holds a keypoints or descriptors
\* blob that does not decode, get returns DecodeError and no record, and
\* the table is unchanged.
C9_DecodeErrorReturned ==
    (/\ GetReturned
     /\ MatchingRows(Before.rows, ArgCamera) # <<>>
     /\ Undecodable(MatchingRows(Before.rows, ArgCamera)[1]))
    => /\ res.status = "DecodeError"
       /\ res.out = None
       /\ feat = Before

\* C9, witness: get returned DecodeError although a later row of the camera
\* converts.
C9_Witness ==
    /\ GetReturned
    /\ res = Result("get_image_feature", "DecodeError", None)
    /\ Len(MatchingRows(feat.rows, ArgCamera)) >= 2
    /\ Converts(MatchingRows(feat.rows, ArgCamera)[2])

\* C10: when replace(c, r) is called with r.id stored under another camera,
\* it returns UniqueViolation and the table is the earlier one without the
\* rows of c: they are not restored, nothing is added, the other rows stay.
C10_ReplaceIdConflictLosesRows ==
    (/\ ResetReturned
     /\ Before.exists
     /\ \E i \in 1..Len(Before.rows) :
          Before.rows[i].id = ArgFeature.id /\ Before.rows[i].camera_id # ArgCamera)
    => /\ res.status = "UniqueViolation"
       /\ MatchingRows(feat.rows, ArgCamera) = <<>>
       /\ feat.rows = DeleteRows(Before.rows, ArgCamera)
       /\ \A i \in 1..Len(Before.rows) :
            Before.rows[i].camera_id # ArgCamera =>
              \E j \in 1..Len(feat.rows) : feat.rows[j] = Before.rows[i]

\* C10, witness: such a replace returned after removing a row of c.
C10_Witness ==
    /\ ResetReturned
    /\ res.status = "UniqueViolation"
    /\ MatchingRows(Before.rows, ArgCamera) # <<>>
    /\ MatchingRows(feat.rows, ArgCamera) = <<>>
    /\ ArgFeature.camera_id = ArgCamera

====
